---- MODULE Spec2Model ----
(***************************************************************************)
(* Verification model of four fragments of the Kibana repository:          *)
(*   - getMtimes      (packages/kbn-optimizer/src/optimizer/get_mtimes.ts) *)
(*   - validateSLO    (x-pack/plugins/observability/.../validate_slo.ts)   *)
(*   - GlobalState    (x-pack/plugins/monitoring/public/url_state.ts)      *)
(* Each fragment has its own specification over its own variables.         *)
(***************************************************************************)
EXTENDS Integers, Sequences, FiniteSets, Bags, TLC

VARIABLES
    \* ---- getMtimes ----
    paths,        \* the input iterable, as the sequence Rx.from() emits
    fs,           \* the filesystem: what Fs.stat answers for each path
    status,       \* the promise: "idle", "pending", "resolved", "rejected"
    result,       \* the settled value: the Map, or the error
    active,       \* mergeMap: number of subscribed inner observables
    buffer,       \* mergeMap: values waiting for a free slot
    inflight,     \* bag of paths whose Fs.stat was started and has not called back
    entries,      \* toArray: bag of the [path, mtimeMs] entries emitted so far
    firstError,   \* history: code of the first non-ENOENT error a stat answered
    \* ---- validateSLO ----
    slo,          \* the SLO passed to validateSLO
    outcome,      \* what the call did: not called yet, returned, or threw
    \* ---- GlobalState ----
    stateContainer,        \* the state held by the state container (null or an object)
    lastAssignedState,     \* GlobalState.lastAssignedState
    lastKnownGlobalState,  \* GlobalState.lastKnownGlobalState ("" when undefined)
    externalState,         \* the object owned by the caller of the constructor
    urlState,              \* what the URL state storage holds under _g (null when absent)
    routeParamG,           \* params._g of the current route ("" when absent)
    locationSearch,        \* the last search string written to ngLocation ("" when none)
    applyAsyncPending,     \* a callback queued with rootScope.$applyAsync has not run yet
    timefilter,            \* what the time-filter service currently answers
    destroyed,             \* destroy() has been called
    notified               \* the last step made state$ emit to the instance's subscriber

mtimesVars == <<paths, fs, status, result, active, buffer, inflight, entries, firstError>>

sloVars == <<slo, outcome>>

globalVars ==
    <<stateContainer, lastAssignedState, lastKnownGlobalState, externalState, urlState,
      routeParamG, locationSearch, applyAsyncPending, timefilter, destroyed, notified>>

vars == <<mtimesVars, sloVars, globalVars>>

-----------------------------------------------------------------------------
(* getMtimes *)

\* mutant of Concurrent: one more than the documented limit
Concurrent_OneMore == 100 + 1

\* the concurrency passed to mergeMap
Concurrent == 100

\* bound of the inputs: the number of freely chosen leading paths
MaxHead == 2

Paths == {"a", "b", "c"}
FillPath == "a"
ErrorCodes == {"EACCES", "EIO"}
Mtimes == {1, 2}

\* what Fs.stat answers for a path: a Stats object or an error with a code
StatAnswers ==
    [code : {"OK"}, mtimeMs : Mtimes]
        \cup [code : {"ENOENT"} \cup ErrorCodes, mtimeMs : {0}]

NoValue == [kind |-> "none"]

Fill(p, k) == [i \in 1..k |-> p]

Heads == UNION {[1..n -> Paths] : n \in 0..MaxHead}

\* inputs of 0..MaxHead paths, and of Concurrent..Concurrent+MaxHead paths
FillLens == {0, Concurrent}

PathSeqs == {h \o Fill(FillPath, k) : h \in Heads, k \in FillLens}

Range(s) == {s[i] : i \in DOMAIN s}

\* stat$(path): Fs.stat is started
StartStat(st, path) == [st EXCEPT !.inflight = @ (+) SetToBag({path})]

\* mergeMap's _next: subscribe the inner observable when a slot is free,
\* otherwise buffer the value
MergeMapNext(st, path) ==
    IF st.active < Concurrent
    THEN StartStat([st EXCEPT !.active = @ + 1], path)
    ELSE [st EXCEPT !.buffer = Append(@, path)]

\* Rx.from(paths) emits every path synchronously, in order, into mergeMap
\* (the fold over ps[lo..hi] is split in halves, and the left half is
\* evaluated before the right one starts, to keep the evaluation shallow)
RECURSIVE EmitRange(_, _, _, _)
EmitRange(st, ps, lo, hi) ==
    IF lo > hi THEN st
    ELSE IF lo = hi THEN MergeMapNext(st, ps[lo])
    ELSE LET mid == (lo + hi) \div 2
             left == EmitRange(st, ps, lo, mid)
         IN  IF left.active >= 0 THEN EmitRange(left, ps, mid + 1, hi) ELSE left

FromPaths(st, ps) == EmitRange(st, ps, 1, Len(ps))

\* mutant of NewMap: every key gets the mtime of one and the same entry
NewMap_OneMtime(es) ==
    LET keys == {e[1] : e \in BagToSet(es)}
    IN  [kind |-> "map",
         map |-> [p \in keys |-> (CHOOSE e \in BagToSet(es) : TRUE)[2]]]

\* new Map(entries): the entries in the bag are <<path, mtimeMs>>
NewMap(es) ==
    LET keys == {e[1] : e \in BagToSet(es)}
    IN  [kind |-> "map",
         map |-> [p \in keys |-> (CHOOSE e \in BagToSet(es) : e[1] = p)[2]]]

\* mutant of MergeMapComplete: does not wait for the active inner observables
MergeMapComplete_Early(st) ==
    IF st.buffer = <<>>
    THEN [st EXCEPT !.status = "resolved", !.result = NewMap(st.entries)]
    ELSE st

\* mergeMap completes when the source has completed, nothing is buffered and
\* no inner observable is active; toArray then emits and the promise resolves
MergeMapComplete(st) ==
    IF st.active = 0 /\ st.buffer = <<>>
    THEN [st EXCEPT !.status = "resolved", !.result = NewMap(st.entries)]
    ELSE st

\* mergeMap's notifyComplete for an inner observable
NotifyComplete(st) ==
    LET s1 == [st EXCEPT !.active = @ - 1]
    IN  IF s1.buffer # <<>>
        THEN MergeMapNext([s1 EXCEPT !.buffer = Tail(@)], Head(s1.buffer))
        ELSE MergeMapComplete(s1)

\* mutant of CatchError: every error is swallowed
CatchError_SwallowAll(code) == "EMPTY"

\* mutant of CatchError: no error is swallowed
CatchError_RethrowAll(code) == "THROW"

\* catchError: ENOENT becomes Rx.EMPTY, anything else is rethrown
CatchError(code) == IF code = "ENOENT" THEN "EMPTY" ELSE "THROW"

\* the inner pipe applied to the answer of one stat
InnerPipe(st, path, answer) ==
    IF answer.code = "OK"
    THEN NotifyComplete([st EXCEPT !.entries = @ (+) SetToBag({<<path, answer.mtimeMs>>})])
    ELSE IF CatchError(answer.code) = "EMPTY"
    THEN NotifyComplete(st)
    ELSE \* the error unsubscribes the whole pipeline: the promise rejects and
         \* what mergeMap and toArray held is dropped
         [st EXCEPT !.status = "rejected",
                    !.result = [kind |-> "error", code |-> answer.code],
                    !.active = 0, !.buffer = <<>>, !.entries = EmptyBag]

MtimesState ==
    [status |-> status, result |-> result, active |-> active, buffer |-> buffer,
     inflight |-> inflight, entries |-> entries]

SetMtimesState(st) ==
    /\ status' = st.status
    /\ result' = st.result
    /\ active' = st.active
    /\ buffer' = st.buffer
    /\ inflight' = st.inflight
    /\ entries' = st.entries

-----------------------------------------------------------------------------
(* validateSLO *)

\* what a call of validateSLO did
Returned == [kind |-> "return", message |-> ""]
Throw(message) == [kind |-> "throw", message |-> message]
NotCalled == [kind |-> "none", message |-> ""]

\* fixed-point numbers: One stands for the number 1
One == 10

DurationUnits == {"m", "h", "d", "w", "M", "Q", "Y"}

\* new Duration(value, unit)
Duration(value, unit) == [value |-> value, unit |-> unit]

\* the length of one unit, in minutes
UnitMinutes(unit) ==
    CASE unit = "m" -> 1
      [] unit = "h" -> 60
      [] unit = "d" -> 24 * 60
      [] unit = "w" -> 7 * 24 * 60
      [] unit = "M" -> 30 * 24 * 60
      [] unit = "Q" -> 90 * 24 * 60
      [] unit = "Y" -> 365 * 24 * 60

InMinutes(d) == d.value * UnitMinutes(d.unit)

\* Duration.isShorterThan
isShorterThan(d, other) == InMinutes(d) < InMinutes(other)

\* Duration.isLongerOrEqualThan
isLongerOrEqualThan(d, other) == ~isShorterThan(d, other)

\* an optional field is <<>> when undefined and <<v>> when it holds v
Undefined == <<>>
Some(v) == <<v>>
IsUndefined(o) == o = <<>>
ValueOf(o) == o[1]

\* timeslicesBudgetingMethodSchema.is
IsTimeslicesBudgetingMethod(method) == method = "timeslices"

\* mutant of isValidTargetNumber: the range ]0, 1] of the doc comment
isValidTargetNumber_IncludesOne(value) == value > 0 /\ value <= One

isValidTargetNumber(value) == value > 0 /\ value < One

isValidTimeWindowDuration(duration) ==
    duration.unit \in {"d", "w", "M", "Q", "Y"}

\* mutant of isValidTimesliceWindowDuration: a window as long as the time
\* window passes
isValidTimesliceWindowDuration_AllowsEqual(timesliceWindow, timeWindow) ==
    /\ timesliceWindow.unit \in {"m", "h"}
    /\ ~isShorterThan(timeWindow, timesliceWindow)

isValidTimesliceWindowDuration(timesliceWindow, timeWindow) ==
    /\ timesliceWindow.unit \in {"m", "h"}
    /\ isShorterThan(timesliceWindow, timeWindow)

\* mutant of isValidFrequencySettings: the upper bound is inclusive
isValidFrequencySettings_UpToOneHour(frequency) ==
    /\ isLongerOrEqualThan(frequency, Duration(1, "m"))
    /\ ~isShorterThan(Duration(1, "h"), frequency)

isValidFrequencySettings(frequency) ==
    /\ isLongerOrEqualThan(frequency, Duration(1, "m"))
    /\ isShorterThan(frequency, Duration(1, "h"))

isValidSyncDelaySettings(syncDelay) ==
    /\ isLongerOrEqualThan(syncDelay, Duration(1, "m"))
    /\ isShorterThan(syncDelay, Duration(6, "h"))

\* mutant of validateSettings: sync_delay is checked before frequency
validateSettings_SyncDelayFirst(s) ==
    IF ~isValidSyncDelaySettings(s.settings.sync_delay)
    THEN Throw("Invalid settings.sync_delay")
    ELSE IF ~isValidFrequencySettings(s.settings.frequency)
    THEN Throw("Invalid settings.frequency")
    ELSE Returned

validateSettings(s) ==
    IF ~isValidFrequencySettings(s.settings.frequency)
    THEN Throw("Invalid settings.frequency")
    ELSE IF ~isValidSyncDelaySettings(s.settings.sync_delay)
    THEN Throw("Invalid settings.sync_delay")
    ELSE Returned

\* validateSLO that tests the timeslice fields whatever the budgeting method
validateSLO_AlwaysTimeslices(s) ==
    IF ~isValidTargetNumber(s.objective.target)
    THEN Throw("Invalid objective.target")
    ELSE IF ~isValidTimeWindowDuration(s.time_window.duration)
    THEN Throw("Invalid time_window.duration")
    ELSE IF \/ IsUndefined(s.objective.timeslice_target)
            \/ ~isValidTargetNumber(ValueOf(s.objective.timeslice_target))
    THEN Throw("Invalid objective.timeslice_target")
    ELSE IF \/ IsUndefined(s.objective.timeslice_window)
            \/ ~isValidTimesliceWindowDuration(ValueOf(s.objective.timeslice_window),
                                               s.time_window.duration)
    THEN Throw("Invalid objective.timeslice_window")
    ELSE validateSettings(s)

validateSLO(s) ==
    IF ~isValidTargetNumber(s.objective.target)
    THEN Throw("Invalid objective.target")
    ELSE IF ~isValidTimeWindowDuration(s.time_window.duration)
    THEN Throw("Invalid time_window.duration")
    ELSE IF /\ IsTimeslicesBudgetingMethod(s.budgeting_method)
            /\ \/ IsUndefined(s.objective.timeslice_target)
               \/ ~isValidTargetNumber(ValueOf(s.objective.timeslice_target))
    THEN Throw("Invalid objective.timeslice_target")
    ELSE IF /\ IsTimeslicesBudgetingMethod(s.budgeting_method)
            /\ \/ IsUndefined(s.objective.timeslice_window)
               \/ ~isValidTimesliceWindowDuration(ValueOf(s.objective.timeslice_window),
                                                  s.time_window.duration)
    THEN Throw("Invalid objective.timeslice_window")
    ELSE validateSettings(s)

\* the inputs: values on both sides of every limit the validator tests
TargetInputs == {-1, 0, 1, One - 1, One, One + 1}
TimesliceTargetInputs == {Undefined} \cup {Some(t) : t \in {0, One \div 2, One}}
TimeWindowInputs ==
    {Duration(1, u) : u \in DurationUnits} \cup {Duration(7, "d")}
TimesliceWindowInputs ==
    {Undefined}
        \cup {Some(Duration(v, u)) : v \in {1, 24, 25, 168, 1440}, u \in {"m", "h"}}
        \cup {Some(Duration(1, "d"))}
FrequencyInputs ==
    {Duration(v, "m") : v \in {0, 1, 59, 60, 61}} \cup {Duration(1, "h")}
SyncDelayInputs ==
    {Duration(v, "m") : v \in {0, 1, 359, 360}} \cup {Duration(5, "h"), Duration(6, "h")}
BudgetingMethods == {"occurrences", "timeslices"}

SLOs ==
    [objective : [target : TargetInputs,
                  timeslice_target : TimesliceTargetInputs,
                  timeslice_window : TimesliceWindowInputs],
     time_window : [duration : TimeWindowInputs],
     budgeting_method : BudgetingMethods,
     settings : [frequency : FrequencyInputs, sync_delay : SyncDelayInputs]]

-----------------------------------------------------------------------------
(* JavaScript values, as far as GlobalState handles them *)

\* a value is a primitive, undefined, null, or an object: a list of
\* <<key, value>> properties in insertion order
Prim(x) == [type |-> "prim", prim |-> x, props |-> <<>>]
Undef == [type |-> "undefined", prim |-> "", props |-> <<>>]
Null == [type |-> "null", prim |-> "", props |-> <<>>]
Obj(props) == [type |-> "object", prim |-> "", props |-> props]
EmptyObj == Obj(<<>>)

KeysOf(o) == {o.props[i][1] : i \in DOMAIN o.props}
HasKey(o, k) == k \in KeysOf(o)
\* o[k]
Get(o, k) ==
    IF HasKey(o, k)
    THEN o.props[CHOOSE i \in DOMAIN o.props : o.props[i][1] = k][2]
    ELSE Undef

\* o[k] = v: an existing property keeps its place, a new one goes last
Assign(o, k, v) ==
    IF HasKey(o, k)
    THEN Obj([i \in DOMAIN o.props |-> IF o.props[i][1] = k THEN <<k, v>> ELSE o.props[i]])
    ELSE Obj(Append(o.props, <<k, v>>))

RECURSIVE AssignAll(_, _)
AssignAll(o, ps) ==
    IF ps = <<>> THEN o ELSE AssignAll(Assign(o, Head(ps)[1], Head(ps)[2]), Tail(ps))

\* { ...a, ...b }: null and undefined spread no property
Spread(a, b) == AssignAll(AssignAll(EmptyObj, a.props), b.props)

\* delete o[k]
Delete(o, k) == Obj(SelectSeq(o.props, LAMBDA p : p[1] # k))

\* JSON.stringify, as the list of the tokens of the text: the properties of
\* an object in insertion order, those whose value is undefined left out
RECURSIVE Stringify(_)
RECURSIVE StringifyProps(_)
StringifyProps(ps) ==
    IF ps = <<>> THEN <<>>
    ELSE (IF Head(ps)[2].type = "undefined"
          THEN <<>>
          ELSE <<Head(ps)[1], ":">> \o Stringify(Head(ps)[2]) \o <<",">>)
         \o StringifyProps(Tail(ps))
Stringify(v) ==
    CASE v.type = "prim" -> <<"'", v.prim>>
      [] v.type = "null" -> <<"null">>
      [] v.type = "undefined" -> <<"undefined">>
      [] v.type = "object" -> <<"{">> \o StringifyProps(v.props) \o <<"}">>

-----------------------------------------------------------------------------
(* GlobalState *)

\* objectEquals: the two JSON texts are the same
objectEquals(objA, objB) == Stringify(objA) = Stringify(objB)

\* the fields of a GlobalState instance and of its collaborators, as a record
GlobalFields ==
    [stateContainer |-> stateContainer,
     lastAssignedState |-> lastAssignedState,
     lastKnownGlobalState |-> lastKnownGlobalState,
     externalState |-> externalState,
     urlState |-> urlState,
     routeParamG |-> routeParamG,
     locationSearch |-> locationSearch,
     applyAsyncPending |-> applyAsyncPending,
     destroyed |-> destroyed,
     notified |-> FALSE]

\* (the record is evaluated once and then assigned field by field)
SetGlobalFields(g) ==
    \E h \in {g} :
        /\ stateContainer' = h.stateContainer
        /\ lastAssignedState' = h.lastAssignedState
        /\ lastKnownGlobalState' = h.lastKnownGlobalState
        /\ externalState' = h.externalState
        /\ urlState' = h.urlState
        /\ routeParamG' = h.routeParamG
        /\ locationSearch' = h.locationSearch
        /\ applyAsyncPending' = h.applyAsyncPending
        /\ destroyed' = h.destroyed
        /\ notified' = h.notified

\* getState that leaves the filters in
getState_KeepsFilters(g) ==
    LET currentState == Spread(g.lastAssignedState, g.stateContainer)
    IN  Delete(Delete(currentState, "refreshInterval"), "time")

\* GlobalState.getState
getState(g) ==
    LET currentState == Spread(g.lastAssignedState, g.stateContainer)
    IN  Delete(Delete(Delete(currentState, "filters"), "refreshInterval"), "time")

\* the excluded keys without filters
ExcludedFromExternal_WithoutFilters == {"save", "time", "refreshInterval"}

ExcludedFromExternal == {"save", "time", "refreshInterval", "filters"}

\* GlobalState.syncExternalState: the loop over the keys of the container's
\* state, in their order
RECURSIVE SyncKeys(_, _)
SyncKeys(ext, ps) ==
    IF ps = <<>> THEN ext
    ELSE LET key == Head(ps)[1]
             value == Head(ps)[2]
         IN  IF key \in ExcludedFromExternal
             THEN SyncKeys(ext, Tail(ps))
             ELSE IF value # Get(ext, key)
             THEN SyncKeys(Assign(ext, key, value), Tail(ps))
             ELSE SyncKeys(ext, Tail(ps))

\* syncExternalState that copies only the keys the external object lacks
syncExternalState_OnlyNewKeys(g) ==
    [g EXCEPT !.externalState =
        AssignAll(g.externalState,
                  SelectSeq(g.stateContainer.props,
                            LAMBDA p : /\ p[1] \notin ExcludedFromExternal
                                       /\ ~HasKey(g.externalState, p[1])))]

syncExternalState(g) ==
    [g EXCEPT !.externalState = SyncKeys(g.externalState, g.stateContainer.props)]

\* the subscriber that restores the fragment whatever the container holds
OnStateChange_RestoresAlways(g) ==
    LET g1 == [g EXCEPT !.lastAssignedState = getState(g), !.notified = TRUE]
        g2 == IF g1.lastKnownGlobalState # ""
              THEN [g1 EXCEPT !.applyAsyncPending = TRUE]
              ELSE g1
    IN  syncExternalState(g2)

\* the subscriber that keeps the container's keys only
OnStateChange_ForgetsKeys(g) ==
    LET g1 == [g EXCEPT !.lastAssignedState =
                            getState([g EXCEPT !.lastAssignedState = EmptyObj]),
                        !.notified = TRUE]
        g2 == IF g1.stateContainer.type \in {"null", "undefined"}
                    /\ g1.lastKnownGlobalState # ""
              THEN [g1 EXCEPT !.applyAsyncPending = TRUE]
              ELSE g1
    IN  syncExternalState(g2)

\* the subscriber of stateContainer.state$ registered by the constructor
OnStateChange(g) ==
    LET g1 == [g EXCEPT !.lastAssignedState = getState(g), !.notified = TRUE]
        g2 == IF g1.stateContainer.type \in {"null", "undefined"}
                 /\ g1.lastKnownGlobalState # ""
              THEN [g1 EXCEPT !.applyAsyncPending = TRUE]
              ELSE g1
    IN  syncExternalState(g2)

\* stateContainer.set: the state is replaced and state$ emits; while the
\* instance is not destroyed its subscriber runs and syncState writes the
\* state to the URL storage
ContainerSet(g, newState) ==
    LET g1 == [g EXCEPT !.stateContainer = newState]
    IN  IF g.destroyed
        THEN g1
        ELSE [OnStateChange(g1) EXCEPT !.urlState = newState]

\* setState that takes only the refresh interval from the time filter
setState_KeepsTime(g, state, tf) ==
    LET currentAppState == getState(g)
        newAppState == Spread(currentAppState, state)
        newState == Assign(newAppState, "refreshInterval", tf.refreshInterval)
    IN  IF state.type # "undefined" /\ objectEquals(newAppState, currentAppState)
        THEN g
        ELSE ContainerSet([g EXCEPT !.lastAssignedState = newState], newState)

\* setState whose guard does not test that an argument was given
setState_GuardWithoutArgumentTest(g, state, tf) ==
    LET currentAppState == getState(g)
        newAppState == Spread(currentAppState, state)
        newState == Assign(Assign(newAppState, "refreshInterval", tf.refreshInterval),
                           "time", tf.time)
    IN  IF objectEquals(newAppState, currentAppState)
        THEN g
        ELSE ContainerSet([g EXCEPT !.lastAssignedState = newState], newState)

\* GlobalState.setState
setState(g, state, tf) ==
    LET currentAppState == getState(g)
        newAppState == Spread(currentAppState, state)
        newState == Assign(Assign(newAppState, "refreshInterval", tf.refreshInterval),
                           "time", tf.time)
    IN  IF state.type # "undefined" /\ objectEquals(newAppState, currentAppState)
        THEN g
        ELSE ContainerSet([g EXCEPT !.lastAssignedState = newState], newState)

\* the handler that replaces the location but leaves the new route's params
OnRouteChangeStart_LocationOnly(g, nextGlobalState) ==
    LET currentGlobalState == g.routeParamG
        g1 == IF nextGlobalState = "" /\ currentGlobalState # ""
              THEN [g EXCEPT !.routeParamG = nextGlobalState,
                             !.locationSearch = currentGlobalState]
              ELSE [g EXCEPT !.routeParamG = nextGlobalState]
    IN  [g1 EXCEPT !.lastKnownGlobalState =
             IF nextGlobalState # "" THEN nextGlobalState ELSE currentGlobalState]

\* the $routeChangeStart listener registered by startHashSync
OnRouteChangeStart(g, nextGlobalState) ==
    LET currentGlobalState == g.routeParamG
        g1 == IF nextGlobalState = "" /\ currentGlobalState # ""
              THEN [g EXCEPT !.routeParamG = currentGlobalState,
                             !.locationSearch = currentGlobalState]
              ELSE [g EXCEPT !.routeParamG = nextGlobalState]
    IN  [g1 EXCEPT !.lastKnownGlobalState =
            IF nextGlobalState # "" THEN nextGlobalState ELSE currentGlobalState]

\* GlobalState.destroy
destroy(g) == [g EXCEPT !.destroyed = TRUE]

-----------------------------------------------------------------------------
(* the fragments are exercised one at a time *)

\* the state of validateSLO while another fragment is exercised
SloUnused ==
    /\ slo = [unused |-> TRUE]
    /\ outcome = NotCalled


\* the state of getMtimes while another fragment is exercised
MtimesUnused ==
    /\ paths = <<>>
    /\ fs = [p \in Paths |-> [code |-> "ENOENT", mtimeMs |-> 0]]
    /\ status = "unused"
    /\ result = NoValue
    /\ active = 0
    /\ buffer = <<>>
    /\ inflight = EmptyBag
    /\ entries = EmptyBag
    /\ firstError = "none"


\* the state of GlobalState while another fragment is exercised
GlobalUnused ==
    /\ stateContainer = Null
    /\ lastAssignedState = EmptyObj
    /\ lastKnownGlobalState = ""
    /\ externalState = EmptyObj
    /\ urlState = Null
    /\ routeParamG = ""
    /\ locationSearch = ""
    /\ applyAsyncPending = FALSE
    /\ timefilter = [refreshInterval |-> Undef, time |-> Undef]
    /\ destroyed = FALSE
    /\ notified = FALSE

-----------------------------------------------------------------------------
(* getMtimes: the call and its callbacks *)

MtimesInit ==
    /\ SloUnused
    /\ GlobalUnused
    /\ paths \in PathSeqs
    /\ fs \in [Paths -> StatAnswers]
    /\ \A p \in Paths \ Range(paths) : fs[p] = [code |-> "ENOENT", mtimeMs |-> 0]
    /\ status = "idle"
    /\ result = NoValue
    /\ active = 0
    /\ buffer = <<>>
    /\ inflight = EmptyBag
    /\ entries = EmptyBag
    /\ firstError = "none"

\* the call: the whole synchronous subscription of the pipeline
GetMtimes ==
    /\ status = "idle"
    /\ SetMtimesState(MergeMapComplete(FromPaths([MtimesState EXCEPT !.status = "pending"], paths)))
    /\ UNCHANGED <<paths, fs, firstError, sloVars, globalVars>>

\* the callback of one started Fs.stat
StatCallback(p) ==
    /\ BagIn(p, inflight)
    /\ LET st == [MtimesState EXCEPT !.inflight = @ (-) SetToBag({p})]
       IN  IF status = "pending"
           THEN SetMtimesState(InnerPipe(st, p, fs[p]))
           ELSE SetMtimesState(st)
    /\ firstError' = IF firstError = "none" /\ fs[p].code \in ErrorCodes
                     THEN fs[p].code ELSE firstError
    /\ UNCHANGED <<paths, fs, sloVars, globalVars>>

MtimesNext == GetMtimes \/ \E p \in Paths : StatCallback(p)

MtimesSpec == MtimesInit /\ [][MtimesNext]_vars

\* for progress neither the mtime values nor the identity of the error
\* matter: one answer of each kind
OneOfEachAnswer ==
    {a \in StatAnswers : a.mtimeMs <= 1 /\ a.code # "EACCES"}

MtimesFairInit ==
    /\ MtimesInit
    /\ \A p \in Paths : fs[p] \in OneOfEachAnswer

\* every started Fs.stat eventually calls back
MtimesFairSpec ==
    /\ MtimesFairInit
    /\ [][MtimesNext]_vars
    /\ \A p \in Paths : WF_vars(StatCallback(p))

-----------------------------------------------------------------------------
(* validateSLO: the call *)

SloInit ==
    /\ MtimesUnused
    /\ GlobalUnused
    /\ slo \in SLOs
    /\ outcome = NotCalled

\* the call validateSLO(slo)
Validate ==
    /\ outcome = NotCalled
    /\ slo \in SLOs
    /\ outcome' = validateSLO(slo)
    /\ UNCHANGED <<slo, mtimesVars, globalVars>>

SloNext == Validate

SloSpec == SloInit /\ [][SloNext]_vars

-----------------------------------------------------------------------------
(* GlobalState: the instance and its environment *)

\* a nested value whose two properties come in either order
NestedAB == Obj(<<<<"a", Prim("1")>>, <<"b", Prim("2")>>>>)
NestedBA == Obj(<<<<"b", Prim("2")>>, <<"a", Prim("1")>>>>)

SetStateArgs ==
    {Undef,
     EmptyObj,
     Obj(<<<<"cluster_uuid", Prim("u1")>>>>),
     Obj(<<<<"cluster_uuid", Prim("u2")>>>>),
     Obj(<<<<"ccs", NestedAB>>>>),
     Obj(<<<<"ccs", NestedBA>>>>)}

\* what the URL can hold under _g
UrlStates ==
    {Null,
     Obj(<<<<"cluster_uuid", Prim("u1")>>, <<"time", Prim("t1")>>,
           <<"refreshInterval", Prim("r1")>>>>),
     Obj(<<<<"filters", Prim("f1")>>, <<"save", Prim("s2")>>, <<"ccs", NestedAB>>>>)}

Timefilters ==
    [refreshInterval : {Prim("r1")}, time : {Prim("t1"), Prim("t2")}]

ExternalStates == {Obj(<<<<"cluster_uuid", Prim("u2")>>, <<"save", Prim("s1")>>>>)}

RouteGlobalStates == {"g1", "g2"}

\* the state after the constructor has run
GlobalInit ==
    /\ MtimesUnused
    /\ SloUnused
    /\ urlState \in UrlStates
    /\ stateContainer = urlState
    /\ lastAssignedState =
           getState([lastAssignedState |-> EmptyObj, stateContainer |-> urlState])
    /\ lastKnownGlobalState = ""
    /\ externalState \in ExternalStates
    /\ routeParamG = ""
    /\ locationSearch = ""
    /\ applyAsyncPending = FALSE
    /\ timefilter \in Timefilters
    /\ destroyed = FALSE
    /\ notified = FALSE

\* a call of setState
SetState(state) ==
    /\ SetGlobalFields(setState(GlobalFields, state, timefilter))
    /\ UNCHANGED <<timefilter, mtimesVars, sloVars>>

\* the URL changes (navigation, history): syncState, while running, sets the
\* container to what the URL holds
UrlChange(u) ==
    /\ u # urlState
    /\ SetGlobalFields(
           IF destroyed
           THEN [GlobalFields EXCEPT !.urlState = u]
           ELSE ContainerSet([GlobalFields EXCEPT !.urlState = u], u))
    /\ UNCHANGED <<timefilter, mtimesVars, sloVars>>

\* the user picks another time range
TimefilterChange(tf) ==
    /\ tf # timefilter
    /\ timefilter' = tf
    /\ SetGlobalFields(GlobalFields)
    /\ UNCHANGED <<mtimesVars, sloVars>>

\* angular broadcasts $routeChangeStart for a new route
RouteChangeStart(nextGlobalState) ==
    /\ SetGlobalFields(OnRouteChangeStart(GlobalFields, nextGlobalState))
    /\ UNCHANGED <<timefilter, mtimesVars, sloVars>>

\* the callback queued with $applyAsync runs: the location is replaced by
\* _g=<lastKnownGlobalState>
ApplyAsyncRun ==
    /\ applyAsyncPending
    /\ SetGlobalFields([GlobalFields EXCEPT !.applyAsyncPending = FALSE,
                                            !.locationSearch = lastKnownGlobalState])
    /\ UNCHANGED <<timefilter, mtimesVars, sloVars>>

\* a call of destroy, by the owner or on the root scope's $destroy
Destroy ==
    /\ ~destroyed
    /\ SetGlobalFields(destroy(GlobalFields))
    /\ UNCHANGED <<timefilter, mtimesVars, sloVars>>

GlobalNext ==
    \/ \E state \in SetStateArgs : SetState(state)
    \/ \E u \in UrlStates : UrlChange(u)
    \/ \E tf \in Timefilters : TimefilterChange(tf)
    \/ \E g \in RouteGlobalStates \cup {""} : RouteChangeStart(g)
    \/ ApplyAsyncRun
    \/ Destroy

GlobalSpec == GlobalInit /\ [][GlobalNext]_vars

-----------------------------------------------------------------------------
(* getMtimes: claims *)

InputPaths == Range(paths)
Existing == {p \in InputPaths : fs[p].code = "OK"}
Missing == {p \in InputPaths : fs[p].code = "ENOENT"}
Failing == {p \in InputPaths : fs[p].code \in ErrorCodes}
Settled == status \in {"resolved", "rejected"}

\* C1: the number of Fs.stat requests started and not yet called back never
\* exceeds 100, whatever the order of the callbacks.
C1_InflightAtMost100 == BagCardinality(inflight) <= 100

\* C1 witness: after some stat has called back, the limit is reached again
\* because a buffered path took the free slot, and paths are still waiting.
C1_Witness ==
    /\ status = "pending"
    /\ BagCardinality(inflight) = 100
    /\ BagCardinality(entries) > 0
    /\ buffer # <<>>

\* C2: once a stat has answered an error other than ENOENT, getMtimes has
\* failed with that (first) error and there is no map.
C2_OtherErrorRejects ==
    firstError # "none" =>
        /\ status = "rejected"
        /\ result = [kind |-> "error", code |-> firstError]

\* C2 witness: a rejected call, all of whose started stats have called back,
\* over an input that also names an existing and a missing path.
C2_Witness ==
    /\ status = "rejected"
    /\ inflight = EmptyBag
    /\ Existing # {}
    /\ Missing # {}

\* C3: when some input paths are missing and no stat fails otherwise, the
\* call never fails and the map it returns has exactly the existing paths
\* as keys (no missing path, every existing path).
C3_MissingOmitted ==
    (Missing # {} /\ Failing = {}) =>
        /\ status # "rejected"
        /\ status = "resolved" =>
              /\ result.kind = "map"
              /\ DOMAIN result.map = Existing
              /\ DOMAIN result.map \cap Missing = {}

\* C3 witness: a returned map over an input with missing and existing paths.
C3_Witness ==
    /\ status = "resolved"
    /\ Missing # {}
    /\ Existing # {}
    /\ Failing = {}

\* C4: when every input path exists, the returned map has exactly the input
\* paths as keys and maps each to the mtimeMs its stat answered.
C4_AllExistExactMap ==
    (InputPaths = Existing) =>
        /\ status # "rejected"
        /\ status = "resolved" =>
              /\ result.kind = "map"
              /\ DOMAIN result.map = InputPaths
              /\ \A p \in InputPaths : result.map[p] = fs[p].mtimeMs

\* C4 witness: a returned map for more than 100 paths, all existing, among
\* them two with different mtimes.
C4_Witness ==
    /\ status = "resolved"
    /\ InputPaths = Existing
    /\ Len(paths) > 100
    /\ \E p, q \in InputPaths : fs[p].mtimeMs # fs[q].mtimeMs

\* C5: the map is returned only when no stat is in flight and no input path
\* is waiting, and, every started stat eventually calling back, a call that
\* was made eventually settles.
C5_CollectsAllThenSettles ==
    /\ [](status = "resolved" => (inflight = EmptyBag /\ buffer = <<>> /\ active = 0))
    /\ (status = "pending") ~> Settled

\* C5 witness: a returned map for an input longer than the concurrency limit.
C5_Witness ==
    /\ status = "resolved"
    /\ Len(paths) > 100
    /\ inflight = EmptyBag

-----------------------------------------------------------------------------
(* validateSLO: claims *)

Called == outcome # NotCalled

\* the six checks, in the order of the specification, each with the message
\* that names its field
CheckMessages ==
    <<"Invalid objective.target",
      "Invalid time_window.duration",
      "Invalid objective.timeslice_target",
      "Invalid objective.timeslice_window",
      "Invalid settings.frequency",
      "Invalid settings.sync_delay">>

\* the business rules, stated on lengths in minutes and fixed-point numbers
StrictlyBetween0And1(t) == t \in 1..(One - 1)
TimeslicesMethod == slo.budgeting_method = "timeslices"
TargetBad == ~StrictlyBetween0And1(slo.objective.target)
TimeWindowBad == slo.time_window.duration.unit \in {"m", "h"}
TimesliceTargetBad ==
    \/ slo.objective.timeslice_target = Undefined
    \/ ~StrictlyBetween0And1(slo.objective.timeslice_target[1])
TimesliceWindowBad ==
    \/ slo.objective.timeslice_window = Undefined
    \/ slo.objective.timeslice_window[1].unit \notin {"m", "h"}
    \/ InMinutes(slo.objective.timeslice_window[1]) >= InMinutes(slo.time_window.duration)
FrequencyBad == InMinutes(slo.settings.frequency) \notin 1..59
SyncDelayBad == InMinutes(slo.settings.sync_delay) \notin 1..(6 * 60 - 1)

\* the positions in CheckMessages of the checks that fail for slo
FailingChecks ==
    {i \in 1..6 :
        \/ i = 1 /\ TargetBad
        \/ i = 2 /\ TimeWindowBad
        \/ i = 3 /\ TimeslicesMethod /\ TimesliceTargetBad
        \/ i = 4 /\ TimeslicesMethod /\ TimesliceWindowBad
        \/ i = 5 /\ FrequencyBad
        \/ i = 6 /\ SyncDelayBad}

FirstFailing == CHOOSE i \in FailingChecks : \A j \in FailingChecks : i <= j

\* C6: validateSLO throws one error naming the first failing field in the
\* order target, time_window.duration, (timeslices only) timeslice_target,
\* timeslice_window, settings.frequency, settings.sync_delay, and returns
\* normally when no check fails.
C6_FirstFailingFieldWins ==
    Called =>
        IF FailingChecks = {}
        THEN outcome = Returned
        ELSE outcome = Throw(CheckMessages[FirstFailing])

\* C6 witness: several checks fail, among them both settings checks, and the
\* error names the first of them, which is not the first check of the list.
C6_Witness ==
    /\ Called
    /\ Cardinality(FailingChecks) >= 3
    /\ {5, 6} \subseteq FailingChecks
    /\ outcome = Throw("Invalid objective.timeslice_window")

C8_TimeslicesRejected ==
    (Called /\ TimeslicesMethod /\ (TimesliceTargetBad \/ TimesliceWindowBad))
        => outcome.kind = "throw"

\* C8 witness: a timeslice_window exactly as long as the time window, in an
\* otherwise valid SLO, is rejected.
C8_Witness ==
    /\ outcome = Throw("Invalid objective.timeslice_window")
    /\ FailingChecks = {4}
    /\ slo.objective.timeslice_window # Undefined
    /\ InMinutes(slo.objective.timeslice_window[1]) = InMinutes(slo.time_window.duration)

\* C9: a frequency outside [1 minute, 1 hour) or a sync_delay outside
\* [1 minute, 6 hours) is rejected whatever the other fields are, and the two
\* settings checks reject nothing inside these ranges (1 minute passes).
C9_SettingsRanges ==
    Called =>
        /\ (FrequencyBad \/ SyncDelayBad) => outcome.kind = "throw"
        /\ outcome = Throw("Invalid settings.frequency") => FrequencyBad
        /\ outcome = Throw("Invalid settings.sync_delay") => SyncDelayBad
        /\ (FailingChecks = {}) => outcome = Returned

\* C9 witness: a frequency of exactly 60 minutes in an otherwise valid SLO
\* is rejected.
C9_Witness ==
    /\ outcome = Throw("Invalid settings.frequency")
    /\ InMinutes(slo.settings.frequency) = 60
    /\ FailingChecks = {5}

\* an SLO whose frequency and sync_delay are exactly 1 minute is accepted
C9_OneMinuteAccepted ==
    /\ outcome = Returned
    /\ InMinutes(slo.settings.frequency) = 1
    /\ InMinutes(slo.settings.sync_delay) = 1

\* C18: when budgeting_method is not timeslices, the outcome of validateSLO
\* does not depend on objective.timeslice_target or objective.timeslice_window:
\* an SLO that differs from the validated one in those two fields only has the
\* same outcome.
C18_TimesliceFieldsIgnoredUnlessTimeslices ==
    (Called /\ slo.budgeting_method # "timeslices") =>
        \A tt \in TimesliceTargetInputs, tw \in TimesliceWindowInputs :
            validateSLO([slo EXCEPT !.objective.timeslice_target = tt,
                                    !.objective.timeslice_window = tw]) = outcome

\* an occurrences SLO with a timeslice target and a timeslice window that the
\* timeslices method rejects was accepted
C18_Witness ==
    /\ Called
    /\ slo.budgeting_method = "occurrences"
    /\ slo.objective.timeslice_target = Some(One)
    /\ slo.objective.timeslice_window = Some(Duration(1440, "h"))
    /\ outcome = Returned

-----------------------------------------------------------------------------
(* GlobalState: claims *)

\* deep equality of two values: the same primitive, or objects with the same
\* keys and deep-equal values, whatever the order of the keys
RECURSIVE DeepEqual(_, _)
DeepEqual(a, b) ==
    /\ a.type = b.type
    /\ a.prim = b.prim
    /\ KeysOf(a) = KeysOf(b)
    /\ \A k \in KeysOf(a) : DeepEqual(Get(a, k), Get(b, k))

\* nothing was written: the container, the external object, the URL and the
\* location are as before and state$ did not emit
NothingWritten ==
    /\ stateContainer' = stateContainer
    /\ ~notified'
    /\ externalState' = externalState
    /\ urlState' = urlState
    /\ locationSearch' = locationSearch
    /\ applyAsyncPending' = applyAsyncPending

\* C10: a call setState(s) with an object s whose merge into the current
\* getState() is deep-equal to the current getState() - in particular
\* setState({}) - writes nothing: the container's state is unchanged, state$
\* does not emit, the external object and the URL are not touched.
C10_NoOpSetStateWritesNothing ==
    [][\A s \in SetStateArgs :
          (/\ s.type = "object"
           /\ SetState(s)
           /\ DeepEqual(Spread(getState(GlobalFields), s), getState(GlobalFields)))
              => NothingWritten]_vars

\* what the guard of setState does ensure: a call with an object whose merge
\* has the same JSON text as the current getState() - setState({}) among
\* them - writes nothing
C10_SameJsonTextWritesNothing ==
    [][\A s \in SetStateArgs :
          (/\ s.type = "object"
           /\ SetState(s)
           /\ Stringify(Spread(getState(GlobalFields), s)) = Stringify(getState(GlobalFields)))
              => NothingWritten]_vars

\* the state in which a call setState(s) made now leaves the instance
AfterSetState(s) == setState(GlobalFields, s, timefilter)

\* after the call setState(s) the container holds the refresh interval and the
\* time range that the time filter returns at the call
HoldsTimefilterValues(s) ==
    /\ Get(AfterSetState(s).stateContainer, "refreshInterval") = timefilter.refreshInterval
    /\ Get(AfterSetState(s).stateContainer, "time") = timefilter.time

\* C11 (as stated): after every call of setState, the container's
\* refreshInterval and time are the values the time filter returned at that
\* call, also when the time filter changed and the application keys did not.
C11_EverySetStateWritesTimefilter ==
    \A s \in SetStateArgs : HoldsTimefilterValues(s)

\* C11 (amended): after every call of setState that is not refused as a
\* no-op - a call without argument, or one whose merged application state has
\* another JSON text than the current one - the container's refreshInterval
\* and time are the values the time filter returned at that call.
C11_WritingSetStateWritesTimefilter ==
    \A s \in SetStateArgs :
        (\/ s.type = "undefined"
         \/ Stringify(Spread(getState(GlobalFields), s)) # Stringify(getState(GlobalFields)))
            => HoldsTimefilterValues(s)

\* setState wrote a time range that only the time filter can have supplied
C11_Witness ==
    /\ notified
    /\ timefilter.time = Prim("t2")
    /\ Get(stateContainer, "time") = Prim("t2")
    /\ Get(stateContainer, "refreshInterval") = timefilter.refreshInterval

\* C12: in every reachable state getState() contains none of the keys
\* filters, refreshInterval and time.
C12_GetStateStripsFiltersAndTime ==
    KeysOf(getState(GlobalFields)) \cap {"filters", "refreshInterval", "time"} = {}

\* the container holds a time range and lastAssignedState a refresh interval,
\* and getState() reports the other keys only
C12_Witness ==
    /\ HasKey(stateContainer, "time")
    /\ HasKey(lastAssignedState, "refreshInterval")
    /\ KeysOf(getState(GlobalFields)) = {"ccs", "cluster_uuid"}

\* C13: after destroy() no listener remains active: no later change of the
\* container, change of the URL or $routeChangeStart makes the instance write
\* the external object, lastAssignedState, lastKnownGlobalState, the route's
\* params or the location.
C13_DestroyReleasesAllListeners ==
    [][destroyed =>
          /\ (\E s \in SetStateArgs : SetState(s))
                 => UNCHANGED <<externalState, lastKnownGlobalState, routeParamG,
                                locationSearch, applyAsyncPending>>
          /\ (\E u \in UrlStates : UrlChange(u))
                 => UNCHANGED <<externalState, lastAssignedState, lastKnownGlobalState,
                                routeParamG, locationSearch, applyAsyncPending>>
          /\ \A g \in RouteGlobalStates \cup {""} :
                 RouteChangeStart(g)
                     => /\ UNCHANGED <<externalState, lastAssignedState,
                                       lastKnownGlobalState, locationSearch>>
                        /\ routeParamG' = g]_vars

\* what destroy() does release: after it, a change of the container or of the
\* URL reaches neither the state$ subscriber nor the URL
C13_ContainerAndUrlReleased ==
    [][destroyed =>
          /\ ~notified'
          /\ applyAsyncPending' => applyAsyncPending
          /\ externalState' = externalState
          /\ (\E s \in SetStateArgs : SetState(s)) => urlState' = urlState
          /\ (\E u \in UrlStates : UrlChange(u))
                 => UNCHANGED <<stateContainer, lastAssignedState>>]_vars

\* C14: right after the instance has handled a change notification of the
\* container (before destroy), for every key k of the container's state other
\* than save, time, refreshInterval and filters, externalState[k] is the
\* container's value for k.
C14_ExternalMirrorsContainer ==
    (notified /\ ~destroyed) =>
        \A k \in KeysOf(stateContainer) \ {"save", "time", "refreshInterval", "filters"} :
            Get(externalState, k) = Get(stateContainer, k)

\* a change was handled that replaced the owner's cluster_uuid and added ccs
C14_Witness ==
    /\ notified
    /\ ~destroyed
    /\ Get(stateContainer, "cluster_uuid") = Prim("u1")
    /\ Get(externalState, "cluster_uuid") = Prim("u1")
    /\ HasKey(stateContainer, "ccs")
    /\ Get(externalState, "ccs") = Get(stateContainer, "ccs")

\* C15: the instance never writes the keys save, time, refreshInterval and
\* filters of the external object and never deletes a key of it: those four
\* keys, and every key absent from the container's state, keep the value the
\* owner gave them.
C15_ExternalFrame ==
    [][/\ KeysOf(externalState) \subseteq KeysOf(externalState')
       /\ \A k \in KeysOf(externalState) \cup KeysOf(externalState') :
              (k \in {"save", "time", "refreshInterval", "filters"}
                  \/ ~HasKey(stateContainer', k))
                  => Get(externalState', k) = Get(externalState, k)]_vars

\* a change of a container holding filters and save was handled: the external
\* object received ccs, kept the owner's save and cluster_uuid and has no
\* filters
C15_Witness ==
    /\ notified
    /\ HasKey(stateContainer, "filters")
    /\ Get(stateContainer, "save") = Prim("s2")
    /\ ~HasKey(stateContainer, "cluster_uuid")
    /\ HasKey(externalState, "ccs")
    /\ ~HasKey(externalState, "filters")
    /\ Get(externalState, "save") = Prim("s1")
    /\ Get(externalState, "cluster_uuid") = Prim("u2")

\* C16: on every $routeChangeStart where the new route has no _g and the old
\* route has one, the new route's _g is set to the old value and the location
\* search is replaced by _g=<old value>; so once a route has carried _g every
\* later route carries one after the handler, and lastKnownGlobalState is the
\* _g of the most recent route. When the new route has a _g of its own, its
\* params and the location are left as they are.
C16_RouteKeepsGlobalState ==
    [][\A g \in RouteGlobalStates \cup {""} :
          RouteChangeStart(g) =>
              /\ (g = "" /\ routeParamG # "")
                     => (routeParamG' = routeParamG /\ locationSearch' = routeParamG)
              /\ g # "" => (routeParamG' = g /\ locationSearch' = locationSearch)
              /\ routeParamG # "" => routeParamG' # ""
              /\ lastKnownGlobalState' = routeParamG']_vars

\* a route without _g followed one with _g=g2: it carries g2 now, and the
\* location was replaced
C16_Witness ==
    /\ routeParamG = "g2"
    /\ locationSearch = "g2"
    /\ lastKnownGlobalState = "g2"
    /\ ~applyAsyncPending
    /\ stateContainer.type = "object"

\* C17: when a change notification of the container is handled while the
\* container's state is empty (null or undefined) and a last known fragment
\* has been recorded, the instance schedules a replace of the location search
\* by _g=<last known fragment>; when the state is not empty, or no fragment
\* has been recorded, the handler causes no write of the location.
C17_EmptyContainerRestoresFragment ==
    [][/\ notified' =>
              /\ locationSearch' = locationSearch
              /\ IF stateContainer'.type \in {"null", "undefined"}
                        /\ lastKnownGlobalState # ""
                 THEN applyAsyncPending'
                 ELSE applyAsyncPending' = applyAsyncPending
       /\ (applyAsyncPending /\ ~applyAsyncPending')
              => locationSearch' = lastKnownGlobalState]_vars

\* the container became empty after a route had carried _g=g1: the replace
\* is scheduled and has not run yet
C17_Witness ==
    /\ notified
    /\ stateContainer = Null
    /\ lastKnownGlobalState = "g1"
    /\ applyAsyncPending
    /\ locationSearch = ""

\* getState() before and after a step
GetStateBefore == getState(GlobalFields)
GetStateAfter ==
    getState([lastAssignedState |-> lastAssignedState',
              stateContainer |-> stateContainer'])

\* C19: the keys of getState() are sticky: a key that getState() reports is
\* reported by every later getState() before destroy, also after the
\* container was replaced by a state without the key or by null; the value
\* reported for a key the container lacks is the last value the key had.
C19_GetStateKeysAreSticky ==
    [][~destroyed' =>
          /\ KeysOf(GetStateBefore) \subseteq KeysOf(GetStateAfter)
          /\ \A k \in KeysOf(GetStateBefore) :
                 ~HasKey(stateContainer', k)
                     => Get(GetStateAfter, k) = Get(GetStateBefore, k)]_vars

\* the container was emptied by the URL, and getState() still reports the ccs
\* that setState had written and the cluster_uuid
C19_Witness ==
    /\ ~destroyed
    /\ notified
    /\ stateContainer = Null
    /\ Get(getState(GlobalFields), "ccs") = NestedBA
    /\ HasKey(getState(GlobalFields), "cluster_uuid")

\* C20: setState() without argument always writes to the container: the state
\* written is the current getState() plus refreshInterval and time from the
\* time filter, and it has no filters key.
C20_SetStateWithoutArgumentWrites ==
    [][SetState(Undef) =>
          /\ ~destroyed => notified'
          /\ KeysOf(stateContainer') =
                 KeysOf(GetStateBefore) \cup {"refreshInterval", "time"}
          /\ \A k \in KeysOf(GetStateBefore) :
                 Get(stateContainer', k) = Get(GetStateBefore, k)
          /\ Get(stateContainer', "refreshInterval") = timefilter.refreshInterval
          /\ Get(stateContainer', "time") = timefilter.time
          /\ ~HasKey(stateContainer', "filters")]_vars

\* setState() rewrote a container that the URL had filled with filters: the
\* application keys are as they were, the filters are gone and the time range
\* is the time filter's
C20_Witness ==
    /\ notified
    /\ KeysOf(stateContainer) = {"save", "ccs", "refreshInterval", "time"}
    /\ Get(stateContainer, "ccs") = NestedAB
    /\ Get(stateContainer, "time") = timefilter.time
    /\ HasKey(urlState, "save") /\ ~HasKey(urlState, "filters")

====
